---- MODULE Spec2Model ----
(***************************************************************************)
(* Model of sal::Adjacency_list and sal::Adjacency_list_directed           *)
(* (src/graph/adjacency_list.h): an ordered map from vertex identifier to  *)
(* an ordered map from neighbour identifier to integer edge weight.        *)
(*                                                                         *)
(* A std::map<K, T> is modelled as a TLA+ function whose DOMAIN is the set *)
(* of keys present; iteration order is the order of the integer keys.      *)
(***************************************************************************)
EXTENDS Integers, Sequences, FiniteSets

VARIABLES kind, adj, last, inserted, nops, it

vars == <<kind, adj, last, inserted, nops, it>>

-----------------------------------------------------------------------------
(* Bounds of the model *)

MaxVertex == 2

MaxWeight == 1

MaxListLen == 2

(* the records a constructor consumes and the calls made after it, together *)
MaxOps == 3

(* V = int: the identifiers callers hand in, and the weights they use *)
Vertex == 1..MaxVertex

Weight == 0..MaxWeight

Kinds == {"undirected", "directed"}

(* UEdge{source, dest} and WEdge{source, dest, weight} *)
UEdge == Vertex \X Vertex

WEdge == Vertex \X Vertex \X Weight

SeqsUpTo(S, n) == UNION {[1..k -> S] : k \in 0..n}

-----------------------------------------------------------------------------
(* std::map primitives *)

EmptyMap == [k \in {} |-> 0]

(* m[k] used as an rvalue/statement: inserts a value-initialised entry when *)
(* k is absent, leaves an existing entry alone                              *)
map_subscript(m, k, dflt) ==
    IF k \in DOMAIN m THEN m
    ELSE [x \in DOMAIN m \cup {k} |-> IF x = k THEN dflt ELSE m[x]]

(* a plausible slip: insert()/emplace() semantics, which keep an old value *)
map_insert_only(m, k, val) ==
    IF k \in DOMAIN m THEN m
    ELSE [x \in DOMAIN m \cup {k} |-> IF x = k THEN val ELSE m[x]]

(* m[k] = val: insert or overwrite *)
map_assign(m, k, val) ==
    [x \in DOMAIN m \cup {k} |-> IF x = k THEN val ELSE m[x]]

(* adj[u][v] = w *)
adj_assign(a, u, v, w) ==
    LET a1 == map_subscript(a, u, EmptyMap)
    IN  [a1 EXCEPT ![u] = map_assign(a1[u], v, w)]

RECURSIVE SumSizes(_, _)
SumSizes(a, S) ==
    IF S = {} THEN 0
    ELSE LET v == CHOOSE x \in S : TRUE
         IN  Cardinality(DOMAIN a[v]) + SumSizes(a, S \ {v})

-----------------------------------------------------------------------------
(* Queries (const member functions) *)

num_vertex(a) == Cardinality(DOMAIN a)

(* edges >> 1 *)
num_edge(a) == SumSizes(a, DOMAIN a) \div 2

(* a plausible slip: inheriting the halving of the base class *)
num_edge_halved(a) == SumSizes(a, DOMAIN a) \div 2

num_edge_directed(a) == SumSizes(a, DOMAIN a)

is_vertex(a, v) == v \in DOMAIN a

is_edge(a, u, v) ==
    IF u \notin DOMAIN a THEN FALSE
    ELSE v \in DOMAIN a[u]

(* a plausible slip: a missing edge reported with the default weight *)
weight_default_one(a, u, v) ==
    IF u \notin DOMAIN a THEN 0
    ELSE IF v \notin DOMAIN a[u] THEN 1 ELSE a[u][v]

weight(a, u, v) ==
    IF u \notin DOMAIN a THEN 0
    ELSE IF v \notin DOMAIN a[u] THEN 0 ELSE a[u][v]

degree(a, v) ==
    IF v \notin DOMAIN a THEN 0 ELSE Cardinality(DOMAIN a[v])

(* V{} for V = int is 0 *)
min_vertex(a) ==
    IF DOMAIN a = {} THEN 0
    ELSE CHOOSE x \in DOMAIN a : \A y \in DOMAIN a : x <= y

-----------------------------------------------------------------------------
(* Modifiers *)

(* a plausible slip: adj[v] = {} *)
add_vertex_reset(a, v) == map_assign(a, v, EmptyMap)

add_vertex(a, v) == map_subscript(a, v, EmptyMap)

(* a plausible slip: the reverse entry forgotten *)
add_edge_one_way(a, u, v, w) == adj_assign(a, u, v, w)

add_edge(a, u, v, w) == adj_assign(adj_assign(a, u, v, w), v, u, w)

(* a plausible slip: the base class's symmetric insertion kept *)
add_edge_symmetric(a, u, v, w) == adj_assign(adj_assign(a, u, v, w), v, u, w)

add_edge_directed(a, u, v, w) ==
    map_subscript(adj_assign(a, u, v, w), v, EmptyMap)

(* virtual dispatch on the dynamic type *)
AddEdgeOf(k, a, u, v, w) ==
    IF k = "directed" THEN add_edge_directed(a, u, v, w) ELSE add_edge(a, u, v, w)

NumEdgeOf(k, a) ==
    IF k = "directed" THEN num_edge_directed(a) ELSE num_edge(a)

-----------------------------------------------------------------------------
(* Constructors: each loops over the edge records in order *)

RECURSIVE ctor_loop_UEdge(_, _, _)
ctor_loop_UEdge(a, l, i) ==
    IF i > Len(l) THEN a
    ELSE ctor_loop_UEdge(
            adj_assign(adj_assign(a, l[i][1], l[i][2], 1), l[i][2], l[i][1], 1),
            l, i + 1)

Adjacency_list_UEdge(l) == ctor_loop_UEdge(EmptyMap, l, 1)

(* a plausible slip: the reverse entry forgotten in the constructor loop *)
RECURSIVE ctor_loop_WEdge_one_way(_, _, _)
ctor_loop_WEdge_one_way(a, l, i) ==
    IF i > Len(l) THEN a
    ELSE ctor_loop_WEdge_one_way(adj_assign(a, l[i][1], l[i][2], l[i][3]), l, i + 1)

RECURSIVE ctor_loop_WEdge(_, _, _)
ctor_loop_WEdge(a, l, i) ==
    IF i > Len(l) THEN a
    ELSE ctor_loop_WEdge(
            adj_assign(adj_assign(a, l[i][1], l[i][2], l[i][3]),
                       l[i][2], l[i][1], l[i][3]),
            l, i + 1)

Adjacency_list_WEdge(l) == ctor_loop_WEdge(EmptyMap, l, 1)

(* while (begin != end) { ...; ++begin; } over records with get_weight() *)
RECURSIVE ctor_loop_range(_, _, _)
ctor_loop_range(a, l, i) ==
    IF i > Len(l) THEN a
    ELSE ctor_loop_range(
            adj_assign(adj_assign(a, l[i][1], l[i][2], l[i][3]),
                       l[i][2], l[i][1], l[i][3]),
            l, i + 1)

Adjacency_list_range(l) == ctor_loop_range(EmptyMap, l, 1)

RECURSIVE ctor_loop_directed_WEdge(_, _, _)
ctor_loop_directed_WEdge(a, l, i) ==
    IF i > Len(l) THEN a
    ELSE ctor_loop_directed_WEdge(
            map_subscript(adj_assign(a, l[i][1], l[i][2], l[i][3]), l[i][2], EmptyMap),
            l, i + 1)

Adjacency_list_directed_WEdge(l) == ctor_loop_directed_WEdge(EmptyMap, l, 1)

RECURSIVE ctor_loop_directed_UEdge(_, _, _)
ctor_loop_directed_UEdge(a, l, i) ==
    IF i > Len(l) THEN a
    ELSE ctor_loop_directed_UEdge(
            map_subscript(adj_assign(a, l[i][1], l[i][2], 1), l[i][2], EmptyMap),
            l, i + 1)

Adjacency_list_directed_UEdge(l) == ctor_loop_directed_UEdge(EmptyMap, l, 1)

RECURSIVE ctor_loop_directed_range(_, _, _)
ctor_loop_directed_range(a, l, i) ==
    IF i > Len(l) THEN a
    ELSE ctor_loop_directed_range(
            map_subscript(adj_assign(a, l[i][1], l[i][2], l[i][3]), l[i][2], EmptyMap),
            l, i + 1)

Adjacency_list_directed_range(l) == ctor_loop_directed_range(EmptyMap, l, 1)

(* the constructor overload chosen by the store's type and the argument's *)
Construct(k, c, l) ==
    IF k = "directed"
    THEN CASE c = "UEdge" -> Adjacency_list_directed_UEdge(l)
           [] c = "WEdge" -> Adjacency_list_directed_WEdge(l)
           [] OTHER       -> Adjacency_list_directed_range(l)
    ELSE CASE c = "UEdge" -> Adjacency_list_UEdge(l)
           [] c = "WEdge" -> Adjacency_list_WEdge(l)
           [] OTHER       -> Adjacency_list_range(l)

Endpoints(l) == {l[i][1] : i \in 1..Len(l)} \cup {l[i][2] : i \in 1..Len(l)}

-----------------------------------------------------------------------------
(* State *)

(* the neighbour iterator a caller holds: singular (value-initialised),    *)
(* or a position in adj[u], which is the key cur or one past the last key  *)
NoIter == [valid |-> FALSE, u |-> 0, atEnd |-> TRUE, cur |-> 0]

(* the call made last: its name, arguments and result; for a modifier, had *)
(* and old record whether its key was present and the weight it then had   *)
Call(op, u, v, w, ret, l) ==
    [op |-> op, u |-> u, v |-> v, w |-> w, ret |-> ret, list |-> l,
     had |-> FALSE, old |-> 0]

Modify(op, u, v, w, had, old) ==
    [op |-> op, u |-> u, v |-> v, w |-> w, ret |-> 0, list |-> <<>>,
     had |-> had, old |-> old]

Ctors == {"UEdge", "WEdge", "range"}

(* a store as one of its constructors leaves it; nops counts the records *)
(* consumed and then every call made                                      *)
Init ==
    /\ kind \in Kinds
    /\ \E c \in Ctors :
         \E l \in SeqsUpTo(IF c = "UEdge" THEN UEdge ELSE WEdge, MaxListLen) :
            /\ adj = Construct(kind, c, l)
            /\ last = Call(c, 0, 0, 0, 0, l)
            /\ inserted = Endpoints(l)
            /\ nops = Len(l)
    /\ it = NoIter

(* Adjacency_list() = default *)
InitDefault ==
    /\ kind \in Kinds
    /\ adj = EmptyMap
    /\ last = Call("default", 0, 0, 0, 0, <<>>)
    /\ inserted = {}
    /\ nops = 0
    /\ it = NoIter

-----------------------------------------------------------------------------
(* Operations *)

AddVertex ==
    /\ nops < MaxOps
    /\ \E v \in Vertex :
         /\ adj' = add_vertex(adj, v)
         /\ last' = Modify("add_vertex", v, 0, 0, is_vertex(adj, v), 0)
         /\ inserted' = inserted \cup {v}
    /\ nops' = nops + 1
    /\ UNCHANGED <<kind, it>>

AddEdge ==
    /\ nops < MaxOps
    /\ \E u \in Vertex, v \in Vertex, w \in Weight :
         /\ adj' = AddEdgeOf(kind, adj, u, v, w)
         /\ last' = Modify("add_edge", u, v, w, is_edge(adj, u, v), weight(adj, u, v))
         /\ inserted' = inserted \cup {u, v}
    /\ nops' = nops + 1
    /\ UNCHANGED <<kind, it>>

NumVertex ==
    /\ nops < MaxOps
    /\ last' = Call("num_vertex", 0, 0, 0, num_vertex(adj), <<>>)
    /\ nops' = nops + 1
    /\ UNCHANGED <<kind, adj, inserted, it>>

NumEdge ==
    /\ nops < MaxOps
    /\ last' = Call("num_edge", 0, 0, 0, NumEdgeOf(kind, adj), <<>>)
    /\ nops' = nops + 1
    /\ UNCHANGED <<kind, adj, inserted, it>>

IsVertex ==
    /\ nops < MaxOps
    /\ \E v \in Vertex : last' = Call("is_vertex", v, 0, 0, is_vertex(adj, v), <<>>)
    /\ nops' = nops + 1
    /\ UNCHANGED <<kind, adj, inserted, it>>

IsEdge ==
    /\ nops < MaxOps
    /\ \E u \in Vertex, v \in Vertex :
         last' = Call("is_edge", u, v, 0, is_edge(adj, u, v), <<>>)
    /\ nops' = nops + 1
    /\ UNCHANGED <<kind, adj, inserted, it>>

GetWeight ==
    /\ nops < MaxOps
    /\ \E u \in Vertex, v \in Vertex :
         last' = Call("weight", u, v, 0, weight(adj, u, v), <<>>)
    /\ nops' = nops + 1
    /\ UNCHANGED <<kind, adj, inserted, it>>

Degree ==
    /\ nops < MaxOps
    /\ \E v \in Vertex : last' = Call("degree", v, 0, 0, degree(adj, v), <<>>)
    /\ nops' = nops + 1
    /\ UNCHANGED <<kind, adj, inserted, it>>

MinVertex ==
    /\ nops < MaxOps
    /\ last' = Call("min_vertex", 0, 0, 0, min_vertex(adj), <<>>)
    /\ nops' = nops + 1
    /\ UNCHANGED <<kind, adj, inserted, it>>

Next ==
    \/ AddVertex
    \/ AddEdge
    \/ NumVertex
    \/ NumEdge
    \/ IsVertex
    \/ IsEdge
    \/ GetWeight
    \/ Degree
    \/ MinVertex

Spec == Init /\ [][Next]_vars

-----------------------------------------------------------------------------
(* The mutable neighbour iterator, Adjacent_iterator over adj[u]           *)

MinKey(S) == CHOOSE x \in S : \A y \in S : x <= y

MaxKey(S) == CHOOSE x \in S : \A y \in S : y <= x

(* adjacent(v).first: begin of v's neighbour map, or a value-initialised   *)
(* iterator when v is no vertex                                            *)
adjacent(a, v) ==
    IF v \in DOMAIN a
    THEN IF DOMAIN a[v] = {}
         THEN [valid |-> TRUE, u |-> v, atEnd |-> TRUE, cur |-> 0]
         ELSE [valid |-> TRUE, u |-> v, atEnd |-> FALSE, cur |-> MinKey(DOMAIN a[v])]
    ELSE NoIter

(* operator++: the next greater key, or end *)
iter_increment(a, i) ==
    LET after == {k \in DOMAIN a[i.u] : k > i.cur}
    IN  IF after = {} THEN [i EXCEPT !.atEnd = TRUE, !.cur = 0]
        ELSE [i EXCEPT !.cur = MinKey(after)]

(* operator--: the next smaller key; from end, the last key *)
iter_decrement(a, i) ==
    LET before == IF i.atEnd THEN DOMAIN a[i.u]
                  ELSE {k \in DOMAIN a[i.u] : k < i.cur}
    IN  [i EXCEPT !.atEnd = FALSE, !.cur = MaxKey(before)]

(* weight() = w: writes through int& to cur->second *)
iter_weight_assign(a, i, w) == [a EXCEPT ![i.u][i.cur] = w]

Adjacent ==
    /\ \E v \in Vertex : it' = adjacent(adj, v)
    /\ UNCHANGED <<kind, adj, last, inserted, nops>>

(* incrementing end or a singular iterator is undefined: callers do not *)
IterIncrement ==
    /\ it.valid /\ ~it.atEnd
    /\ it' = iter_increment(adj, it)
    /\ UNCHANGED <<kind, adj, last, inserted, nops>>

(* decrementing begin or a singular iterator is undefined: callers do not *)
IterDecrement ==
    /\ it.valid
    /\ IF it.atEnd THEN DOMAIN adj[it.u] # {}
                   ELSE \E k \in DOMAIN adj[it.u] : k < it.cur
    /\ it' = iter_decrement(adj, it)
    /\ UNCHANGED <<kind, adj, last, inserted, nops>>

(* dereferencing end or a singular iterator is undefined: callers do not *)
IterWeightAssign ==
    /\ it.valid /\ ~it.atEnd
    /\ \E w \in Weight :
         /\ adj' = iter_weight_assign(adj, it, w)
         /\ last' = Modify("iter_weight", it.u, it.cur, w, TRUE, adj[it.u][it.cur])
    /\ UNCHANGED <<kind, inserted, nops, it>>

(* the whole mutable interface, on a default-constructed store *)
NextIter ==
    \/ AddVertex
    \/ AddEdge
    \/ Adjacent
    \/ IterIncrement
    \/ IterDecrement
    \/ IterWeightAssign

SpecIter == InitDefault /\ [][NextIter]_vars

(* a default-constructed store grown by add_edge alone *)
NextEdges ==
    \/ AddEdge
    \/ NumEdge
    \/ Degree

SpecEdges == InitDefault /\ [][NextEdges]_vars

-----------------------------------------------------------------------------
(* Properties *)

QueryOps ==
    {"num_vertex", "num_edge", "is_vertex", "is_edge", "weight", "degree", "min_vertex"}

RECURSIVE SumDegrees(_, _)
SumDegrees(a, S) ==
    IF S = {} THEN 0
    ELSE LET v == CHOOSE x \in S : TRUE
         IN  degree(a, v) + SumDegrees(a, S \ {v})

(* the ordered pairs (u, v) the store reports as edges *)
EdgePairs(a) == {q \in Vertex \X Vertex : is_edge(a, q[1], q[2])}

(* the distinct undirected edges: unordered pairs {u, v}, {u} for a self-loop *)
UndirectedEdges(a) == {{q[1], q[2]} : q \in EdgePairs(a)}

WeightSymmetric(a) ==
    \A u \in Vertex, v \in Vertex : weight(a, u, v) = weight(a, v, u)

(* a step that is a call of op *)
IsCall(op) == last'.op = op /\ nops' = nops + 1

(* C1: on an undirected store grown by add_vertex and add_edge from an empty *)
(* or list-constructed graph, is_edge and weight are symmetric for all u, v, *)
(* and right after add_edge(u,v,w) both directions are edges of weight w.    *)
C1_UndirectedSymmetric ==
    kind = "undirected" =>
        /\ \A u \in Vertex, v \in Vertex :
              /\ is_edge(adj, u, v) = is_edge(adj, v, u)
              /\ weight(adj, u, v) = weight(adj, v, u)
        /\ last.op = "add_edge" =>
              /\ is_edge(adj, last.u, last.v)
              /\ is_edge(adj, last.v, last.u)
              /\ weight(adj, last.u, last.v) = last.w
              /\ weight(adj, last.v, last.u) = last.w

C1_Witness ==
    /\ kind = "undirected"
    /\ last.op = "add_edge"
    /\ last.u # last.v
    /\ ~last.had
    /\ num_vertex(adj) = 2
    /\ NumEdgeOf(kind, adj) = 2

(* what every directed add_edge(u,v,w) establishes *)
C2_Forward(u, v, w) ==
    /\ is_edge(adj', u, v)
    /\ weight(adj', u, v) = w
    /\ is_vertex(adj', v)

(* C2 as stated: on a directed store, after add_edge(u,v,w), (u,v) is an    *)
(* edge of weight w, v is a vertex whose neighbour set is empty if v was    *)
(* absent and untouched otherwise, and is_edge(v,u) keeps its value.        *)
C2_DirectedAddEdge_AsStated ==
    [][(kind = "directed" /\ IsCall("add_edge")) =>
        LET u == last'.u
            v == last'.v
        IN  /\ C2_Forward(u, v, last'.w)
            /\ adj'[v] = IF is_vertex(adj, v) THEN adj[v] ELSE EmptyMap
            /\ is_edge(adj', v, u) = is_edge(adj, v, u)]_vars

(* C2 amended: the same, with "v's neighbour set untouched" and "is_edge(v,u) *)
(* unchanged" claimed for u # v; for a self-loop add_edge(v,v,w) the only     *)
(* change to v's neighbour set is the entry v -> w.                           *)
C2_DirectedAddEdge ==
    [][(kind = "directed" /\ IsCall("add_edge")) =>
        LET u == last'.u
            v == last'.v
            before == IF is_vertex(adj, v) THEN adj[v] ELSE EmptyMap
        IN  /\ C2_Forward(u, v, last'.w)
            /\ u # v =>
                  /\ adj'[v] = before
                  /\ is_edge(adj', v, u) = is_edge(adj, v, u)
            /\ u = v =>
                  /\ DOMAIN adj'[v] = DOMAIN before \cup {v}
                  /\ \A x \in DOMAIN before \ {v} : adj'[v][x] = before[x]]_vars

C2_Witness ==
    /\ kind = "directed"
    /\ last.op = "add_edge"
    /\ last.u # last.v
    /\ ~last.had
    /\ ~is_edge(adj, last.v, last.u)
    /\ degree(adj, last.v) > 0

(* C3: on an undirected store, num_edge() is the number of distinct         *)
(* undirected edges, self-loops included.                                   *)
C3_NumEdgeCountsEdges ==
    kind = "undirected" => NumEdgeOf(kind, adj) = Cardinality(UndirectedEdges(adj))

(* C4: on an undirected store grown by add_edge alone,                      *)
(* 2 * num_edge() equals the sum of degree(v) over all vertices.            *)
C4_HandshakeUndirected ==
    kind = "undirected" => 2 * NumEdgeOf(kind, adj) = SumDegrees(adj, Vertex)

(* C5: on a directed store, num_edge() equals the sum of the out-degrees,   *)
(* which is the number of ordered pairs (u,v) with is_edge(u,v); a num_edge *)
(* call returns that number.                                                *)
C5_NumEdgeDirected ==
    kind = "directed" =>
        /\ NumEdgeOf(kind, adj) = SumDegrees(adj, Vertex)
        /\ NumEdgeOf(kind, adj) = Cardinality(EdgePairs(adj))
        /\ last.op = "num_edge" => last.ret = Cardinality(EdgePairs(adj))

C5_Witness ==
    /\ kind = "directed"
    /\ last.op = "num_edge"
    /\ last.ret = 1
    /\ \E u \in Vertex, v \in Vertex : u # v /\ is_edge(adj, u, v) /\ ~is_edge(adj, v, u)

(* the sentinels as the graph gives them *)
C6_Absent ==
    /\ \A v \in Vertex \ inserted :
          /\ ~is_vertex(adj, v)
          /\ degree(adj, v) = 0
          /\ \A x \in Vertex : ~is_edge(adj, v, x) /\ ~is_edge(adj, x, v)
    /\ \A u \in Vertex, v \in Vertex : ~is_edge(adj, u, v) => weight(adj, u, v) = 0

(* the sentinels as the last query returned them *)
C6_Returned ==
    /\ (last.op = "is_vertex" /\ last.u \notin inserted) => last.ret = FALSE
    /\ (last.op = "degree" /\ last.u \notin inserted) => last.ret = 0
    /\ (last.op = "is_edge" /\ (last.u \notin inserted \/ last.v \notin inserted))
          => last.ret = FALSE
    /\ (last.op = "weight" /\ ~is_edge(adj, last.u, last.v)) => last.ret = 0

IsQuery == last'.op \in QueryOps /\ nops' = nops + 1

(* a query step changes neither the vertex set nor any neighbour set *)
C6_QueriesPure == IsQuery => (adj' = adj /\ inserted' = inserted)

(* C6: in every reachable state of either store, an identifier never        *)
(* inserted is no vertex, has degree 0 and is on no edge, a non-edge has    *)
(* weight 0, the queries return these sentinels, and a query step leaves    *)
(* the vertex set and every neighbour set as they were. (C6_Absent reads    *)
(* adj and inserted alone, so it is re-established on the steps that may    *)
(* change them: all steps but those C6_QueriesPure shows to change neither.)*)
C6_QueriesSentinelAndPure ==
    /\ C6_Absent /\ C6_Returned
    /\ [][/\ C6_QueriesPure
          /\ C6_Returned'
          /\ ~IsQuery => C6_Absent']_vars

C6_Witness ==
    /\ last.op = "weight"
    /\ last.u \in inserted
    /\ last.v \notin inserted
    /\ degree(adj, last.u) > 0
    /\ last.ret = 0

(* C7: add_edge(u,v,w) on a graph that already has edge (u,v): with the     *)
(* weight it has, the graph is unchanged; with another weight, weight(u,v)  *)
(* (and weight(v,u) on the undirected store) becomes w while num_vertex,    *)
(* num_edge, every degree and every other edge and weight stay as they were.*)
C7_AddEdgeOverwrites ==
    [][(IsCall("add_edge") /\ is_edge(adj, last'.u, last'.v)) =>
        LET u == last'.u
            v == last'.v
            w == last'.w
            same(x, y) == <<x, y>> = <<u, v>> \/ (kind = "undirected" /\ <<x, y>> = <<v, u>>)
        IN  IF weight(adj, u, v) = w
            THEN adj' = adj
            ELSE /\ weight(adj', u, v) = w
                 /\ kind = "undirected" => weight(adj', v, u) = w
                 /\ num_vertex(adj') = num_vertex(adj)
                 /\ NumEdgeOf(kind, adj') = NumEdgeOf(kind, adj)
                 /\ \A x \in Vertex : degree(adj', x) = degree(adj, x)
                 /\ \A x \in Vertex, y \in Vertex :
                       /\ is_edge(adj', x, y) = is_edge(adj, x, y)
                       /\ ~same(x, y) => weight(adj', x, y) = weight(adj, x, y)]_vars

C7_Witness ==
    /\ last.op = "add_edge"
    /\ last.had
    /\ last.old # last.w
    /\ last.u # last.v
    /\ weight(adj, last.u, last.v) = last.w
    /\ \E x \in Vertex, y \in Vertex :
          is_edge(adj, x, y) /\ {x, y} # {last.u, last.v}

(* C8: after add_vertex(v), v is a vertex; if it already was one the graph  *)
(* is unchanged; if it was absent it has an empty neighbour set, num_vertex *)
(* has grown by exactly 1, num_edge is unchanged and every other vertex     *)
(* keeps its neighbour set.                                                 *)
C8_AddVertexIdempotent ==
    [][IsCall("add_vertex") =>
        LET v == last'.u
        IN  /\ is_vertex(adj', v)
            /\ IF is_vertex(adj, v)
               THEN /\ adj' = adj
                    /\ num_vertex(adj') = num_vertex(adj)
                    /\ degree(adj', v) = degree(adj, v)
               ELSE /\ adj'[v] = EmptyMap
                    /\ num_vertex(adj') = num_vertex(adj) + 1
                    /\ NumEdgeOf(kind, adj') = NumEdgeOf(kind, adj)
                    /\ \A x \in DOMAIN adj : adj'[x] = adj[x]]_vars

C8_Witness ==
    /\ last.op = "add_vertex"
    /\ last.had
    /\ degree(adj, last.u) > 0

(* the store obtained from the empty store by add_edge(s,d,w) per record,   *)
(* in order; a record (s,d) means weight 1                                  *)
RECURSIVE Replay(_, _, _, _)
Replay(k, a, l, i) ==
    IF i > Len(l) THEN a
    ELSE Replay(k,
                AddEdgeOf(k, a, l[i][1], l[i][2], IF Len(l[i]) = 2 THEN 1 ELSE l[i][3]),
                l, i + 1)

(* C9: the graph a list or range constructor builds from L equals the graph *)
(* grown from the empty store of the same kind by add_edge per record of L  *)
(* in order; the undirected graph from [(1,2,5),(2,3,1)] has 3 vertices,    *)
(* 2 edges, weight(1,2) = 5, weight(2,3) = 1, weight(1,3) = 0, no edge (3,1)*)
C9_ConstructorIsRepeatedAddEdge ==
    /\ last.op \in Ctors => adj = Replay(kind, EmptyMap, last.list, 1)
    /\ LET g == Adjacency_list_WEdge(<<<<1, 2, 5>>, <<2, 3, 1>>>>)
       IN  /\ num_vertex(g) = 3
           /\ num_edge(g) = 2
           /\ weight(g, 1, 2) = 5
           /\ weight(g, 2, 3) = 1
           /\ weight(g, 1, 3) = 0
           /\ ~is_edge(g, 3, 1)

C9_Witness ==
    /\ last.op = "WEdge"
    /\ kind = "undirected"
    /\ Len(last.list) = 2
    /\ last.list[1][1] = last.list[2][2]
    /\ last.list[1][2] = last.list[2][1]
    /\ last.list[1][1] # last.list[1][2]
    /\ last.list[1][3] # last.list[2][3]
    /\ weight(adj, last.list[1][1], last.list[1][2]) = last.list[2][3]

(* C10: on an undirected store, weight(u,v) = weight(v,u) for all u, v in   *)
(* every state reachable by add_vertex, add_edge and in-place weight edits  *)
(* through the mutable neighbour iterator.                                  *)
C10_SymmetricUnderIteratorEdits ==
    kind = "undirected" => WeightSymmetric(adj)

====
